---- MODULE Spec2Model ----
(***************************************************************************)
(* HDF5DatasetExtendable (src/baseline_preprocess.py, lines 38-110): a     *)
(* growable two-array container ("data" and "labels") over an h5py file.   *)
(*                                                                         *)
(* The model follows one container instance and the file it writes:        *)
(* construction, scoped acquisition (__enter__), append, add_metadata and  *)
(* scoped release (__exit__).  The h5py calls the class makes              *)
(* (create_dataset, resize, slice assignment, attrs) are modelled by what  *)
(* they do to the array: creation with a fixed per-sample shape, growth    *)
(* along axis 0 with fill rows, a broadcasting write converted to the      *)
(* array's element type, and errors raised by the library.                 *)
(*                                                                         *)
(* Element values are counted in halves (3 stands for 1.5), so that the    *)
(* conversion to an integer element type is visible.                       *)
(***************************************************************************)
EXTENDS Integers, Sequences, FiniteSets, TLC

VARIABLES
    phase,        \* "new" | "constructed" | "open" | "closed": where the caller is
    filename,     \* self.filename (a sequence of characters)
    data_type,    \* self.data_type
    label_type,   \* self.label_type
    initialized,  \* self.initialized
    dataset,      \* self.dataset: "unset" (never assigned), "live" (the "data" array of
                  \* the open file) or "stale" (an array of a file closed or truncated since)
    labelset,     \* self.labelset, likewise
    fileOpen,     \* self.file is an open h5py.File
    fexists,      \* the backing file exists on disk
    darr,         \* the array "data" of the backing file
    larr,         \* the array "labels" of the backing file
    attrs,        \* the attributes of "data"
    exc,          \* the exception raised by the most recent call ("none": it returned)
    delivered,    \* the exception that left the most recent scope
    closes,       \* number of self.file.close() calls since the last __enter__
    call,         \* the most recent call with its arguments
    sumD,         \* rows of the data batches appended in this scope, while clean (else 0)
    sumL,         \* rows of the label batches appended in this scope, while clean (else 0)
    clean         \* every append of this scope returned normally

vars == <<phase, filename, data_type, label_type, initialized, dataset, labelset,
          fileOpen, fexists, darr, larr, attrs, exc, delivered, closes,
          call, sumD, sumL, clean>>

----------------------------------------------------------------------------
(* Bounds *)

MaxRows == 3
MaxBatchRows == 2

----------------------------------------------------------------------------
(* Inputs *)

Hdf5 == <<".", "h", "d", "f", "5">>

Types == {"float32", "int"}

Filenames ==
    { <<"t", ".", "h", "d", "f", "5">>,
      <<"t", ".", "h", "d", "f", "5", ".", "b">>,
      <<"t", ".", "h", "5">>,
      <<"t">> }

\* constructor calls
Configs == [f : Filenames, dt : Types, lt : Types]

\* the file name of line 226 with the element types of line 40, and a name line 48 rejects
DefaultConfigs ==
    { [f |-> <<"t", ".", "h", "d", "f", "5">>, dt |-> "float32", lt |-> "int"],
      [f |-> <<"t", ".", "h", "5">>,           dt |-> "float32", lt |-> "int"] }

Widths == {1, 2}

Seeds == {3}

Scalar == [rank |-> 0, n |-> 0, w |-> 0, s |-> 0]

\* in the record of a call: the argument was never read
NotRead == [rank |-> -1, n |-> 0, w |-> 0, s |-> 0]

Batches ==
    {Scalar} \cup
    { [rank |-> 1, n |-> n, w |-> w, s |-> IF n = 0 THEN 0 ELSE s] :
        n \in 0..MaxBatchRows, w \in Widths, s \in Seeds }

Rows(b) == [i \in 1..b.n |-> [j \in 1..b.w |-> b.s + 2 * (i - 1) + 4 * (j - 1)]]

Keys == {"version", "info"}

Absent == "<absent>"

Infos ==
    UNION { [ks -> {1, 2}] : ks \in SUBSET Keys }

----------------------------------------------------------------------------
(* Python and h5py primitives used by the class *)

\* needle in hay, for sequences of characters
Contains(needle, hay) ==
    \E i \in 1..(Len(hay) - Len(needle) + 1) :
        SubSeq(hay, i, i + Len(needle) - 1) = needle

\* the check of line 48
FilenameAccepted(f) == Contains(Hdf5, f)

\* str(v) for the values a caller passes
ToStr(v) == CASE v = 1 -> "1" [] v = 2 -> "2"

\* conversion of one element to the array's element type (values count halves)
Cast(type, v) == IF type = "int" THEN 2 * (v \div 2) ELSE v

NoArray == [exists |-> FALSE, w |-> 0, rows |-> <<>>]

NoAttrs == [k \in Keys |-> Absent]

Fill == 0

FillRow(w) == [j \in 1..w |-> Fill]

\* file.create_dataset(name, np.shape(b), type, maxshape=(None,) + np.shape(b)[1:],
\*                     data=b, chunks=True): the error it raises, "none" if it succeeds
CreateError(b, arr) ==
    IF b.rank = 0 THEN "TypeError"          \* a scalar dataset cannot be chunked or extended
    ELSE IF arr.exists THEN "ValueError"    \* the name already exists in the file
    ELSE "none"

CreateDataset(b, type) ==
    [exists |-> TRUE,
     w      |-> b.w,
     rows   |-> [i \in 1..b.n |-> [j \in 1..b.w |-> Cast(type, Rows(b)[i][j])]]]

\* a resize to n rows, not by n rows
ResizeTo(arr, n) ==
    [arr EXCEPT !.rows = [i \in 1..n |-> IF i <= Len(@) THEN @[i] ELSE FillRow(arr.w)]]

\* shape = np.array(arr.shape); shape[0] += n; arr.resize(shape)
Resize(arr, n) ==
    [arr EXCEPT !.rows = @ \o [i \in 1..n |-> FillRow(arr.w)]]

\* first row (0-based) selected by the slice [-n:] of an axis of length len
TailStart(n, len) ==
    IF n = 0 THEN 0
    ELSE IF len - n < 0 THEN 0
    ELSE len - n

\* arr[start:, ...] = b: the error the broadcasting write raises, "none" if it succeeds
WriteError(b, arr, start) ==
    LET count == Len(arr.rows) - start
    IN  IF ~(b.w = 1 \/ b.w = arr.w) THEN "TypeError"
        ELSE IF ~(b.n = 1 \/ b.n = count) THEN "TypeError"
        ELSE IF b.n = 0 THEN "ZeroDivisionError"
        ELSE "none"

\* a write into the first rows of the array, not the last
WriteRowsHead(arr, b, start, type) ==
    [arr EXCEPT !.rows =
        [i \in 1..Len(arr.rows) |->
            IF i <= Len(arr.rows) - start
            THEN [j \in 1..arr.w |->
                    Cast(type, Rows(b)[IF b.n = 1 THEN 1 ELSE i]
                                      [IF b.w = 1 THEN 1 ELSE j])]
            ELSE arr.rows[i]]]

\* arr[start:, ...] = b, when the write succeeds
WriteRows(arr, b, start, type) ==
    [arr EXCEPT !.rows =
        [i \in 1..Len(arr.rows) |->
            IF i > start
            THEN [j \in 1..arr.w |->
                    Cast(type, Rows(b)[IF b.n = 1 THEN 1 ELSE i - start]
                                      [IF b.w = 1 THEN 1 ELSE j])]
            ELSE arr.rows[i]]]

NoSel == <<-1, -1>>

NoCall ==
    [op |-> "none", d |-> NotRead, l |-> NotRead, info |-> <<>>, path |-> "none",
     step |-> "none", dpre |-> 0, lpre |-> 0, dsel |-> NoSel, lsel |-> NoSel]

----------------------------------------------------------------------------
(* The state after construction has not happened yet: no instance, no file *)

Init ==
    /\ phase = "new"
    /\ filename = <<>>
    /\ data_type = "float32"
    /\ label_type = "int"
    /\ initialized = FALSE
    /\ dataset = "unset"
    /\ labelset = "unset"
    /\ fileOpen = FALSE
    /\ fexists = FALSE
    /\ darr = NoArray
    /\ larr = NoArray
    /\ attrs = NoAttrs
    /\ exc = "none"
    /\ delivered = "none"
    /\ closes = 0
    /\ call = NoCall
    /\ sumD = 0
    /\ sumL = 0
    /\ clean = TRUE

\* __init__(filename, data_type, label_type): lines 40-53
Construct(ConfigSet) ==
    /\ phase = "new"
    /\ \E c \in ConfigSet :
        IF FilenameAccepted(c.f)
        THEN /\ phase' = "constructed"
             /\ filename' = c.f
             /\ data_type' = c.dt
             /\ label_type' = c.lt
             /\ initialized' = FALSE
             /\ exc' = "none"
             /\ call' = [NoCall EXCEPT !.op = "__init__"]
        ELSE /\ exc' = "AssertionError"
             /\ call' = [NoCall EXCEPT !.op = "__init__"]
             /\ UNCHANGED <<phase, filename, data_type, label_type, initialized>>
    /\ UNCHANGED <<dataset, labelset, fileOpen, fexists, darr, larr, attrs,
                   delivered, closes, sumD, sumL, clean>>

\* a reference to an array, once its file is closed or truncated
Stale(handle) == IF handle = "unset" THEN "unset" ELSE "stale"

\* __enter__: h5py.File(self.filename, "w") creates or truncates the file; lines 55-57
Enter ==
    /\ phase \in {"constructed", "closed"}
    /\ phase' = "open"
    /\ fileOpen' = TRUE
    /\ dataset' = Stale(dataset)
    /\ labelset' = Stale(labelset)
    /\ closes' = 0
    /\ fexists' = TRUE
    /\ darr' = NoArray
    /\ larr' = NoArray
    /\ attrs' = NoAttrs
    /\ exc' = "none"
    /\ delivered' = "none"
    /\ call' = [NoCall EXCEPT !.op = "__enter__"]
    /\ sumD' = 0
    /\ sumL' = 0
    /\ clean' = TRUE
    /\ UNCHANGED <<filename, data_type, label_type, initialized>>

\* _init(data, labels): lines 77-87. The outcome of the two creations, in order.
InitOutcome(d, l) ==
    LET base == [darr |-> darr, larr |-> larr, dataset |-> dataset, labelset |-> labelset,
                 initialized |-> initialized, exc |-> "none", step |-> "none",
                 dsel |-> NoSel, lsel |-> NoSel, labelsRead |-> FALSE]
    IN  IF CreateError(d, darr) # "none"
        THEN [base EXCEPT !.exc = CreateError(d, darr), !.step = "create data"]
        ELSE LET one == [base EXCEPT !.darr = CreateDataset(d, data_type),
                                     !.dataset = "live", !.labelsRead = TRUE]
             IN  IF CreateError(l, larr) # "none"
                 THEN [one EXCEPT !.exc = CreateError(l, larr), !.step = "create labels"]
                 ELSE [one EXCEPT !.larr = CreateDataset(l, label_type),
                                  !.labelset = "live",
                                  !.initialized = TRUE]

\* lines 99-102 (and 104-107): resize one array, then write the batch into arr[-n:, ...]
\* handle: the instance's reference to the array
GrowOutcome(arr, handle, b, type) ==
    IF handle # "live"
    THEN [arr |-> arr, exc |-> "ValueError", step |-> "shape", sel |-> NoSel]
    ELSE IF b.rank = 0
    THEN [arr |-> arr, exc |-> "IndexError", step |-> "shape", sel |-> NoSel]
    ELSE LET grown == Resize(arr, b.n)
             start == TailStart(b.n, Len(grown.rows))
             sel   == <<start, Len(grown.rows)>>
         IN  IF WriteError(b, grown, start) # "none"
             THEN [arr |-> grown, exc |-> WriteError(b, grown, start), step |-> "write",
                   sel |-> sel]
             ELSE [arr |-> WriteRows(grown, b, start, type), exc |-> "none",
                   step |-> "none", sel |-> sel]

\* append on an initialized container: lines 99-107
ExtendOutcome(d, l) ==
    LET base == [darr |-> darr, larr |-> larr, dataset |-> dataset, labelset |-> labelset,
                 initialized |-> initialized, exc |-> "none", step |-> "none",
                 dsel |-> NoSel, lsel |-> NoSel, labelsRead |-> FALSE]
        gd == GrowOutcome(darr, dataset, d, data_type)
    IN  IF gd.exc # "none"
        THEN [base EXCEPT !.darr = gd.arr, !.exc = gd.exc, !.dsel = gd.sel,
                          !.step = gd.step \o " data"]
        ELSE LET gl == GrowOutcome(larr, labelset, l, label_type)
             IN  [base EXCEPT !.darr = gd.arr, !.dsel = gd.sel, !.labelsRead = TRUE,
                              !.larr = gl.arr, !.lsel = gl.sel, !.exc = gl.exc,
                              !.step = IF gl.exc = "none" THEN "none"
                                       ELSE gl.step \o " labels"]

\* append(data, labels): lines 89-107
AppendOutcome(d, l) ==
    IF ~initialized THEN InitOutcome(d, l) ELSE ExtendOutcome(d, l)

append(DataBatches, LabelBatches) ==
    /\ phase = "open"
    /\ \E d \in DataBatches, l \in LabelBatches :
        /\ Len(darr.rows) + d.n <= MaxRows
        /\ Len(larr.rows) + l.n <= MaxRows
        /\ LET r == AppendOutcome(d, l)
           IN  /\ darr' = r.darr
               /\ larr' = r.larr
               /\ dataset' = r.dataset
               /\ labelset' = r.labelset
               /\ initialized' = r.initialized
               /\ exc' = r.exc
               /\ call' = [op |-> "append", d |-> d,
                           l |-> IF r.labelsRead THEN l ELSE NotRead, info |-> <<>>,
                           path |-> IF initialized THEN "extend" ELSE "init",
                           step |-> r.step,
                           dpre |-> Len(darr.rows), lpre |-> Len(larr.rows),
                           dsel |-> r.dsel, lsel |-> r.lsel]
               /\ clean' = (clean /\ r.exc = "none")
               /\ sumD' = IF clean /\ r.exc = "none" THEN sumD + d.n ELSE 0
               /\ sumL' = IF clean /\ r.exc = "none" THEN sumL + l.n ELSE 0
    /\ UNCHANGED <<phase, filename, data_type, label_type, fileOpen, fexists,
                   attrs, delivered, closes>>

\* the attributes after lines 66-68
StoreInfo(a, info) ==
    [k \in Keys |->
        IF k \in DOMAIN info THEN ToStr(info[k])
        ELSE IF k = "version" THEN "1.0.0"
        ELSE a[k]]

\* add_metadata(info): lines 59-68
AddMetadataError ==
    IF dataset = "unset" THEN "AttributeError"     \* self.dataset was never assigned
    ELSE IF dataset = "stale" THEN "ValueError"    \* the array of a file closed earlier
    ELSE "none"

add_metadata(InfoSet) ==
    /\ phase = "open"
    /\ \E info \in InfoSet :
        /\ exc' = AddMetadataError
        /\ attrs' = IF AddMetadataError = "none" THEN StoreInfo(attrs, info) ELSE attrs
        /\ call' = [NoCall EXCEPT !.op = "add_metadata", !.info = info]
    /\ UNCHANGED <<phase, filename, data_type, label_type, initialized, dataset, labelset,
                   fileOpen, fexists, darr, larr, delivered, closes,
                   sumD, sumL, clean>>

\* an __exit__ that closes the file only when no exception is in flight
ExitOnSuccess ==
    /\ phase = "open"
    /\ phase' = "closed"
    /\ fileOpen' = (exc # "none")
    /\ closes' = IF exc = "none" THEN closes + 1 ELSE closes
    /\ delivered' = exc
    /\ call' = [NoCall EXCEPT !.op = "__exit__"]
    /\ UNCHANGED <<filename, data_type, label_type, initialized, dataset, labelset,
                   fexists, darr, larr, attrs, exc, sumD, sumL, clean>>

\* __exit__(exc_type, exc_val, exc_tb): line 110; it returns None, so the exception
\* in flight goes on to the caller
Exit ==
    /\ phase = "open"
    /\ phase' = "closed"
    /\ fileOpen' = FALSE
    /\ closes' = closes + 1
    /\ delivered' = exc
    /\ call' = [NoCall EXCEPT !.op = "__exit__"]
    /\ UNCHANGED <<filename, data_type, label_type, initialized, dataset, labelset,
                   fexists, darr, larr, attrs, exc, sumD, sumL, clean>>

Next ==
    \/ Construct(DefaultConfigs)
    \/ Enter
    \/ append(Batches, Batches)
    \/ add_metadata({[k \in {"info"} |-> 1]})
    \/ Exit

Spec == Init /\ [][Next]_vars

\* the same operations, with every constructor call and every metadata mapping
\* and few batches
FewBatches == {Scalar, [rank |-> 1, n |-> 1, w |-> 1, s |-> 3]}

NextCalls ==
    \/ Construct(Configs)
    \/ Enter
    \/ append(FewBatches, FewBatches)
    \/ add_metadata(Infos)
    \/ Exit

SpecCalls == Init /\ [][NextCalls]_vars

----------------------------------------------------------------------------
(* Properties *)

AppendReturned == phase = "open" /\ call.op = "append" /\ exc = "none"

\* C1. Count accumulation: while every append of the scope has returned normally,
\* the data array holds as many rows as the data batches had together and the
\* labels array as many as the label batches had; the first append brings its rows
\* by creating the array, a later one adds its rows to those held before.
C1_CountAccumulation ==
    /\ (phase = "open" /\ clean) =>
          /\ Len(darr.rows) = sumD
          /\ Len(larr.rows) = sumL
    /\ (AppendReturned /\ call.path = "init") =>
          /\ call.dpre = 0 /\ Len(darr.rows) = call.d.n
          /\ call.lpre = 0 /\ Len(larr.rows) = call.l.n
    /\ (AppendReturned /\ call.path = "extend") =>
          /\ Len(darr.rows) = call.dpre + call.d.n
          /\ Len(larr.rows) = call.lpre + call.l.n

C1_Witness ==
    /\ AppendReturned /\ clean
    /\ call.path = "extend"
    /\ call.d.n = 2 /\ call.l.n = 1
    /\ sumD = 2 /\ sumL = 3

\* the last n rows of a sequence
LastRows(seq, n) == SubSeq(seq, Len(seq) - n + 1, Len(seq))

TailHolds(arr, b, type) ==
    /\ Len(arr.rows) >= b.n
    /\ \A i \in 1..b.n :
         /\ Len(arr.rows[Len(arr.rows) - b.n + i]) = arr.w
         /\ \A j \in 1..arr.w :
              arr.rows[Len(arr.rows) - b.n + i][j]
                  = Cast(type, Rows(b)[i][IF b.w = 1 THEN 1 ELSE j])

C3_PrefixPreservation ==
    [][ (phase = "open" /\ initialized /\ call'.op = "append" /\ call' # call) =>
          /\ call'.dsel # NoSel =>
                call'.dsel = <<Len(darr.rows), Len(darr.rows) + call'.d.n>>
          /\ call'.lsel # NoSel =>
                call'.lsel = <<Len(larr.rows), Len(larr.rows) + call'.l.n>>
          /\ \A i \in 1..Len(darr.rows) :
                Len(darr'.rows) >= i /\ darr'.rows[i] = darr.rows[i]
          /\ \A i \in 1..Len(larr.rows) :
                Len(larr'.rows) >= i /\ larr'.rows[i] = larr.rows[i] ]_vars

\* C4. Shape fixation: once created, an array keeps its per-sample shape while the
\* file is open, and an append of a batch with another per-sample shape raises.
C4_ShapeFixation ==
    [][ /\ (phase = "open" /\ phase' = "open" /\ darr.exists) => darr'.w = darr.w
        /\ (phase = "open" /\ phase' = "open" /\ larr.exists) => larr'.w = larr.w
        /\ (phase = "open" /\ initialized /\ call'.op = "append" /\ call' # call) =>
              /\ (call'.d.rank = 1 /\ call'.d.w # darr.w) => exc' # "none"
              /\ (call'.l.rank = 1 /\ call'.l.w # larr.w) => exc' # "none" ]_vars

\* the append on an initialized container failed on the batch b for the array arr
\* (which: "data" or "labels"), whose per-sample shape differs from the batch's
MismatchFailed(which, b, arr) ==
    /\ phase = "open" /\ call.op = "append" /\ call.path = "extend"
    /\ exc # "none"
    /\ call.step \in {"resize " \o which, "write " \o which}
    /\ b.w # arr.w

\* C5. After a shape mismatch: when an append on an initialized container fails on
\* a batch whose per-sample shape differs from the array's, nothing was resized:
\* the array has the row count it had before the call.
C5_MismatchLeavesExtent ==
    /\ MismatchFailed("data", call.d, darr) => Len(darr.rows) = call.dpre
    /\ MismatchFailed("labels", call.l, larr) => Len(larr.rows) = call.lpre

\* C6. Metadata before initialization: add_metadata, called before any append has
\* completed, raises, stores no attribute and leaves the container uninitialized.
C6_MetadataBeforeInit ==
    (phase = "open" /\ call.op = "add_metadata" /\ ~initialized) =>
        /\ exc # "none"
        /\ attrs = NoAttrs

\* the file name ends in .hdf5
HasHdf5Extension(f) ==
    Len(f) >= Len(Hdf5) /\ SubSeq(f, Len(f) - Len(Hdf5) + 1, Len(f)) = Hdf5

\* C7. Construction check: a container is constructed only with a file name whose
\* extension is .hdf5, and no file exists before the first scoped acquisition.
C7_ConstructionCheck ==
    /\ phase # "new" => HasHdf5Extension(filename)
    /\ phase \in {"new", "constructed"} => ~fexists

\* C8. Metadata overwrite and version stamp: an add_metadata call that returns
\* leaves version at "1.0.0", every key it was given at the string of the value
\* given, every other key as it was, and it changes no array.
C8_MetadataStamp ==
    [][ (phase = "open" /\ initialized /\ dataset = "live"
            /\ call'.op = "add_metadata" /\ call' # call) =>
          /\ darr' = darr /\ larr' = larr
          /\ exc' = "none" =>
                /\ attrs'["version"] = "1.0.0"
                /\ \A k \in DOMAIN call'.info : attrs'[k] = ToStr(call'.info[k])
                /\ \A k \in Keys \ (DOMAIN call'.info \cup {"version"}) :
                      attrs'[k] = attrs[k] ]_vars

\* C9. Scoped release: inside a scope the file is open and not yet closed; a scope
\* that has ended has closed the file exactly once and handed the exception of its
\* last call, if any, on to the caller; closing changes nothing stored in the file.
C9_ScopedRelease ==
    /\ [] /\ phase = "open" => (fileOpen /\ closes = 0)
          /\ phase = "closed" => (~fileOpen /\ closes = 1 /\ delivered = exc)
    /\ [][ (phase = "open" /\ phase' = "closed") =>
              (darr' = darr /\ larr' = larr /\ attrs' = attrs /\ fexists') ]_vars

C9_Witness ==
    /\ phase = "closed"
    /\ delivered = "TypeError"
    /\ darr.exists /\ ~larr.exists
    /\ ~fileOpen /\ closes = 1

\* C10. Two-state lifecycle: while the file is open either neither array exists or
\* both do, and initialized is true exactly when both exist.
C10_TwoStates ==
    phase = "open" =>
        /\ darr.exists <=> larr.exists
        /\ initialized <=> (darr.exists /\ larr.exists)

====
